---- MODULE Spec2Model ----
(***************************************************************************)
(* Model of flask_app/app.py: the application factory create_app(), the    *)
(* index view it registers, and the __main__ entry point that runs the     *)
(* development server.  The Flask calls the file makes (Flask(...),        *)
(* @app.route, render_template, app.run) are modelled by what they do to   *)
(* the application object, the file system and the listening socket.       *)
(***************************************************************************)
EXTENDS Naturals, Sequences, FiniteSets

VARIABLES
    name,       \* __name__ of the module: "__main__" when run as a script
    apps,       \* heap of Flask objects, in order of construction
    returned,   \* object ids returned by the calls of create_app(), in order
    main,       \* the entry point: its position and its local variable app
    server,     \* the development server's socket
    portInUse,  \* another process holds port 5000
    fs,         \* files present under the application root
    pending,    \* requests accepted by the running server, not yet handled
    resp,       \* the response written by the step just taken (None otherwise)
    io          \* the I/O the program performed in the step just taken

vars == <<name, apps, returned, main, server, portInUse, fs, pending, resp, io>>

\* ---------------------------------------------------------------- bounds
MaxApps == 2        \* calls of create_app() by an importing caller
MaxInFlight == 2    \* requests the threaded server handles concurrently

\* ------------------------------------------------------------- constants
Port == 5000
Host == "0.0.0.0"
None == "None"

Methods == {"GET", "HEAD", "OPTIONS", "POST", "PUT", "DELETE"}

\* URL paths as sequences of segments: "/" is <<>>.
RootPath == <<>>
Paths == {RootPath, <<"nonexistent">>, <<"static", "style.css">>}

TemplateFile == <<"templates", "index.html">>
StaticFile == <<"static", "style.css">>
Files == {TemplateFile, StaticFile}

PathConverter == "<path:filename>"

\* ------------------------------------------------- the application object
\* Methods of a rule registered without an explicit methods argument:
\* GET, with HEAD and the automatic OPTIONS added by the framework.
DefaultMethods == {"GET", "HEAD", "OPTIONS"}

\* Variant: the static folder is recorded but no static rule is registered.
Flask_no_static(static_folder, template_folder) ==
    [ static_folder      |-> static_folder,
      template_folder    |-> template_folder,
      url_map            |-> {},
      debug              |-> FALSE,
      template_cache     |-> {},
      got_first_request  |-> FALSE ]

\* Flask(__name__, static_folder=..., template_folder=...): a new object; a
\* static folder brings the rule /<static_folder>/<path:filename> with it.
Flask(static_folder, template_folder) ==
    [ static_folder      |-> static_folder,
      template_folder    |-> template_folder,
      url_map            |-> IF static_folder = None THEN {}
                             ELSE {[ rule     |-> <<static_folder, PathConverter>>,
                                     endpoint |-> "static",
                                     methods  |-> DefaultMethods ]},
      debug              |-> FALSE,
      template_cache     |-> {},
      got_first_request  |-> FALSE ]

\* Variant: the rule is registered for every method.
route_all_methods(app, rule, endpoint) ==
    [app EXCEPT !.url_map = @ \cup {[ rule     |-> rule,
                                      endpoint |-> endpoint,
                                      methods  |-> Methods ]}]

\* @app.route(rule) applied to the function named endpoint.
route(app, rule, endpoint) ==
    [app EXCEPT !.url_map = @ \cup {[ rule     |-> rule,
                                      endpoint |-> endpoint,
                                      methods  |-> DefaultMethods ]}]

\* Variant: a module-level application, constructed once and handed out by
\* every call.
create_app_singleton(heap) ==
    IF heap = <<>>
    THEN [ heap |-> <<route(Flask("static", "templates"), RootPath, "index")>>,
           id   |-> 1 ]
    ELSE [ heap |-> heap, id |-> 1 ]

\* Variant: the factory loads the template while constructing.
create_app_preload(heap) ==
    [ heap |-> Append(heap,
                      [route(Flask("static", "templates"), RootPath, "index")
                          EXCEPT !.template_cache = {"index.html"}]),
      id   |-> Len(heap) + 1 ]

\* create_app(): constructs a new object on the heap, registers the index
\* view for "/" on it and returns it (its id).
create_app(heap) ==
    [ heap |-> Append(heap, route(Flask("static", "templates"), RootPath, "index")),
      id   |-> Len(heap) + 1 ]

\* The configuration of an application object (what is not runtime state).
ConfigOf(app) ==
    [ static_folder   |-> app.static_folder,
      template_folder |-> app.template_folder,
      url_map         |-> app.url_map,
      debug           |-> app.debug ]

\* ------------------------------------------------------- request handling
\* Variant: every rule matches any path it is a prefix of.
RuleMatches_prefix(rule, path) ==
    LET n == Len(rule.rule) IN
    IF n > 0 /\ rule.rule[n] = PathConverter
    THEN /\ Len(path) >= n
         /\ \A k \in 1..(n - 1) : path[k] = rule.rule[k]
    ELSE /\ Len(path) >= n
         /\ \A k \in 1..n : path[k] = rule.rule[k]

\* Does a rule of the URL map match a path?  A trailing <path:filename>
\* converter takes one or more segments; every other part is literal.
RuleMatches(rule, path) ==
    LET n == Len(rule.rule) IN
    IF n > 0 /\ rule.rule[n] = PathConverter
    THEN /\ Len(path) >= n
         /\ \A k \in 1..(n - 1) : path[k] = rule.rule[k]
    ELSE path = rule.rule

\* url_map matching: NotFound when no rule matches the path,
\* MethodNotAllowed when one does but not for this method.
match(url_map, method, path) ==
    LET byPath == {r \in url_map : RuleMatches(r, path)}
        byMethod == {r \in byPath : method \in r.methods}
    IN  IF byPath = {} THEN [kind |-> "NotFound", endpoint |-> None]
        ELSE IF byMethod = {} THEN [kind |-> "MethodNotAllowed", endpoint |-> None]
        ELSE [kind |-> "Matched", endpoint |-> (CHOOSE r \in byMethod : TRUE).endpoint]

\* The markup a template renders to (no context variables are passed).
Markup(template) == <<"markup", template>>

\* Variant: a cached template is used without re-checking the file, in debug
\* mode too.
render_template_stale(app, template, files) ==
    IF template \in app.template_cache
    THEN [ok |-> TRUE, body |-> Markup(template), app |-> app, io |-> {}]
    ELSE IF <<app.template_folder, template>> \in files
    THEN [ok |-> TRUE, body |-> Markup(template),
          app |-> [app EXCEPT !.template_cache = @ \cup {template}],
          io |-> {"template"}]
    ELSE [ok |-> FALSE, body |-> <<>>, app |-> app, io |-> {"template"}]

\* render_template(template): the template comes from the environment's
\* cache when it is there and the application is not in debug mode (templates
\* are re-checked against the file only with auto-reload, which follows
\* debug); otherwise it is loaded from <template_folder>/<template>, which
\* raises TemplateNotFound when the file is absent.
render_template(app, template, files) ==
    IF template \in app.template_cache /\ ~app.debug
    THEN [ok |-> TRUE, body |-> Markup(template), app |-> app, io |-> {}]
    ELSE IF <<app.template_folder, template>> \in files
    THEN [ok |-> TRUE, body |-> Markup(template),
          app |-> [app EXCEPT !.template_cache = @ \cup {template}],
          io |-> {"template"}]
    ELSE [ok |-> FALSE, body |-> <<>>, app |-> app, io |-> {"template"}]

\* Variant: the view renders a template of another name.
index_other_template(app, files) == render_template(app, "game.html", files)

\* Variant: the view catches the failure and returns a substitute page.
index_catch(app, files) ==
    LET r == render_template(app, "index.html", files) IN
    IF r.ok THEN r ELSE [r EXCEPT !.ok = TRUE, !.body = <<"markup", "fallback">>]

\* The view function: return render_template('index.html'); nothing is caught.
index(app, files) == render_template(app, "index.html", files)

\* The framework's static view: the file under the static folder, or NotFound.
send_static_file(app, filename, files) ==
    IF <<app.static_folder>> \o filename \in files
    THEN [ok |-> TRUE, body |-> <<"file">> \o filename]
    ELSE [ok |-> FALSE, body |-> <<>>]

Response(status, content_type, body, view) ==
    [status |-> status, content_type |-> content_type, body |-> body, view |-> view]

ErrorPage(status, title) == Response(status, "text/html", <<"error", title>>, None)

\* One request through the application: URL matching, the automatic OPTIONS
\* answer, the view, and the default error handling around it.  An exception
\* of the view becomes the 500 page, or in debug mode propagates to the
\* development server's debugger, which answers 500 with the traceback.
full_dispatch_request(app, method, path, files) ==
    LET m == match(app.url_map, method, path) IN
    IF m.kind = "NotFound"
    THEN [response |-> ErrorPage(404, "Not Found"), app |-> app, io |-> {}]
    ELSE IF m.kind = "MethodNotAllowed"
    THEN [response |-> ErrorPage(405, "Method Not Allowed"), app |-> app, io |-> {}]
    ELSE IF method = "OPTIONS"
    THEN [response |-> Response(200, "text/html", <<>>, None), app |-> app, io |-> {}]
    ELSE IF m.endpoint = "index"
    THEN LET r == index(app, files) IN
         [response |-> IF r.ok THEN Response(200, "text/html", r.body, "index")
                       ELSE IF app.debug
                       THEN Response(500, "text/html",
                                     <<"traceback", "TemplateNotFound">>, "index")
                       ELSE Response(500, "text/html",
                                     <<"error", "Internal Server Error">>, "index"),
          app |-> r.app, io |-> r.io]
    ELSE LET r == send_static_file(app, SubSeq(path, 2, Len(path)), files) IN
         [response |-> IF r.ok THEN Response(200, "text/css", r.body, "static")
                       ELSE [ErrorPage(404, "Not Found") EXCEPT !.view = "static"],
          app |-> app, io |-> {"static"}]

\* Variant: handling a request registers a further rule on the application.
wsgi_app_registers(app, method, path, files) ==
    LET r == full_dispatch_request([app EXCEPT !.got_first_request = TRUE],
                                   method, path, files)
    IN  [r EXCEPT !.app = route(r.app, <<"health">>, "health")]

\* The WSGI entry: marks the first request, dispatches, and sends no body
\* for HEAD.
wsgi_app(app, method, path, files) ==
    LET r == full_dispatch_request([app EXCEPT !.got_first_request = TRUE],
                                   method, path, files)
    IN  IF method = "HEAD"
        THEN [r EXCEPT !.response.body = <<>>]
        ELSE r

\* ------------------------------------------------------------ the server
NoServer == [listening |-> FALSE, host |-> None, port |-> 0,
             binds |-> 0, bind_failed |-> FALSE]

\* Variant: when the port is taken, the next port is tried.
run_retry(app, host, port, debug, inUse) ==
    [ app    |-> [app EXCEPT !.debug = debug],
      server |-> [listening |-> TRUE, host |-> host,
                  port |-> IF inUse THEN port + 1 ELSE port,
                  binds |-> IF inUse THEN 2 ELSE 1, bind_failed |-> inUse] ]

\* app.run(host, port, debug): sets the debug flag, then binds and listens;
\* a failed bind is not caught here nor by the caller, and ends the process.
run(app, host, port, debug, inUse) ==
    [ app    |-> [app EXCEPT !.debug = debug],
      server |-> [listening |-> ~inUse, host |-> host, port |-> port,
                  binds |-> 1, bind_failed |-> inUse] ]

\* The response as the client sees it, tagged with the request it answers.
Exchange(id, method, path, response) ==
    [ app |-> id, method |-> method, path |-> path,
      status |-> response.status, content_type |-> response.content_type,
      body |-> response.body, view |-> response.view ]

\* ----------------------------------------------------------------- state
Init ==
    /\ name \in {"__main__", "flask_app.app"}
    /\ apps = <<>>
    /\ returned = <<>>
    /\ main = [pc |-> IF name = "__main__" THEN "start" ELSE "imported", app |-> 0]
    /\ server = NoServer
    /\ portInUse \in BOOLEAN
    /\ fs \in SUBSET Files
    /\ pending = {}
    /\ resp = {}
    /\ io = {}

\* if __name__ == '__main__': app = create_app()
Main_CreateApp ==
    /\ main.pc = "start"
    /\ LET r == create_app(apps) IN
        /\ apps' = r.heap
        /\ returned' = Append(returned, r.id)
        /\ main' = [pc |-> "created", app |-> r.id]
    /\ resp' = {}
    /\ io' = {}
    /\ UNCHANGED <<name, server, portInUse, fs, pending>>

\* app.run(host='0.0.0.0', port=5000, debug=True)
Main_Run ==
    /\ main.pc = "created"
    /\ LET r == run(apps[main.app], Host, Port, TRUE, portInUse) IN
        /\ apps' = [apps EXCEPT ![main.app] = r.app]
        /\ server' = r.server
        /\ main' = [main EXCEPT !.pc = IF r.server.listening THEN "serving" ELSE "exited"]
    /\ resp' = {}
    /\ io' = {"bind"}
    /\ UNCHANGED <<name, returned, portInUse, fs, pending>>

\* The module imported by another program, which calls the factory itself.
CreateApp ==
    /\ name # "__main__"
    /\ Len(returned) < MaxApps
    /\ LET r == create_app(apps) IN
        /\ apps' = r.heap
        /\ returned' = Append(returned, r.id)
    /\ resp' = {}
    /\ io' = {}
    /\ UNCHANGED <<name, main, server, portInUse, fs, pending>>

\* The importing program sends one request through a returned instance.
Call ==
    /\ name # "__main__"
    /\ \E k \in 1..Len(returned), method \in Methods, path \in Paths :
        LET id == returned[k]
            r == wsgi_app(apps[id], method, path, fs)
        IN  /\ apps' = [apps EXCEPT ![id] = r.app]
            /\ resp' = {Exchange(id, method, path, r.response)}
            /\ io' = r.io
    /\ UNCHANGED <<name, returned, main, server, portInUse, fs, pending>>

\* The running server accepts a request; its threads handle requests
\* concurrently, so several can be in flight.
Receive ==
    /\ main.pc = "serving"
    /\ server.listening
    /\ Cardinality(pending) < MaxInFlight
    /\ \E method \in Methods, path \in Paths :
        pending' = pending \cup {[method |-> method, path |-> path]}
    /\ pending' # pending
    /\ resp' = {}
    /\ io' = {}
    /\ UNCHANGED <<name, apps, returned, main, server, portInUse, fs>>

\* A server thread runs one accepted request through the application.
Handle ==
    /\ main.pc = "serving"
    /\ \E q \in pending :
        LET r == wsgi_app(apps[main.app], q.method, q.path, fs) IN
            /\ apps' = [apps EXCEPT ![main.app] = r.app]
            /\ resp' = {Exchange(main.app, q.method, q.path, r.response)}
            /\ io' = r.io
            /\ pending' = pending \ {q}
    /\ UNCHANGED <<name, returned, main, server, portInUse, fs>>

\* The environment creates or removes the template or the static file.
FsChange ==
    /\ \E f \in Files :
        fs' = IF f \in fs THEN fs \ {f} ELSE fs \cup {f}
    /\ resp' = {}
    /\ io' = {}
    /\ UNCHANGED <<name, apps, returned, main, server, portInUse, pending>>

\* Another process takes or releases the port while this one does not hold it.
PortChange ==
    /\ name = "__main__"
    /\ ~server.listening
    /\ portInUse' = ~portInUse
    /\ resp' = {}
    /\ io' = {}
    /\ UNCHANGED <<name, apps, returned, main, server, fs, pending>>

Next ==
    \/ Main_CreateApp
    \/ Main_Run
    \/ CreateApp
    \/ Call
    \/ Receive
    \/ Handle
    \/ FsChange
    \/ PortChange

Spec == Init /\ [][Next]_vars

\* ================================================================ claims
IsStaticPath(path) == Len(path) >= 2 /\ path[1] = "static"

ErrorBodies == {<<"error", "Internal Server Error">>, <<"traceback", "TemplateNotFound">>}

\* C1: a GET of "/" handled while templates/index.html is present is answered
\* 200 with Content-Type text/html and a non-empty body, the markup rendered
\* from index.html.
C1_GetIndexOk ==
    \A x \in resp :
        (x.method = "GET" /\ x.path = RootPath /\ TemplateFile \in fs)
        => /\ x.status = 200
           /\ x.content_type = "text/html"
           /\ x.body # <<>>
           /\ x.body = <<"markup", "index.html">>
           /\ x.view = "index"

C1_Witness ==
    \E x \in resp :
        /\ x.method = "GET" /\ x.path = RootPath /\ TemplateFile \in fs
        /\ x.status = 200 /\ x.body = <<"markup", "index.html">>

\* C2 (as stated): every request whose path is not "/" is answered 404,
\* paths under /static/ included.
C2_AllOtherPaths404 ==
    \A x \in resp : x.path # RootPath => x.status = 404

\* C2 (amended): a request whose path is neither "/" nor under /static/ is
\* answered 404 whatever its method; a GET or HEAD of /static/<file> is
\* answered 404 exactly when the file is absent from the static folder and
\* 200 when it is present, OPTIONS there 200, any other method 405.
C2_OtherPaths ==
    \A x \in resp :
        x.path # RootPath =>
            IF ~IsStaticPath(x.path) THEN x.status = 404
            ELSE IF x.method \in {"GET", "HEAD"}
            THEN x.status = (IF <<"static">> \o SubSeq(x.path, 2, Len(x.path)) \in fs
                             THEN 200 ELSE 404)
            ELSE IF x.method = "OPTIONS" THEN x.status = 200
            ELSE x.status = 405

C2_Witness ==
    \E x \in resp :
        /\ x.path = <<"nonexistent">> /\ x.method = "POST" /\ x.status = 404

\* C3 (as stated): a GET of "/" handled while index.html is absent is answered
\* 500 with the framework's error page; the view catches nothing and no
\* substitute body is produced.
C3_MissingTemplate500 ==
    \A x \in resp :
        (x.method = "GET" /\ x.path = RootPath /\ TemplateFile \notin fs)
        => /\ x.status = 500
           /\ x.body \in ErrorBodies

\* C3 (amended): a GET of "/" handled while index.html is absent is answered
\* 500 with the framework's error page (nothing caught, no substitute body),
\* unless the instance is not in debug mode and already holds the template in
\* its cache from an earlier render, in which case it answers 200 from the
\* cache; the debug server the entry point starts always answers 500.
C3_MissingTemplate ==
    \A x \in resp :
        (x.method = "GET" /\ x.path = RootPath /\ TemplateFile \notin fs)
        => LET a == apps[x.app] IN
           IF ~a.debug /\ "index.html" \in a.template_cache
           THEN x.status = 200 /\ x.body = <<"markup", "index.html">>
           ELSE /\ x.status = 500
                /\ x.body \in ErrorBodies
                /\ x.view = "index"
                /\ (a.debug => x.body = <<"traceback", "TemplateNotFound">>)

C3_Witness ==
    \E x \in resp :
        /\ x.method = "GET" /\ x.path = RootPath /\ TemplateFile \notin fs
        /\ x.status = 500 /\ x.view = "index"

\* C4: every call of create_app() returns an instance (never None); two calls
\* return two distinct instances with equal configuration (static root,
\* template root, route table), and a request sent to one instance leaves
\* every other instance, its configuration included, unchanged.
C4_Returned ==
    /\ \A k \in 1..Len(returned) : returned[k] \in 1..Len(apps)
    /\ \A k, l \in 1..Len(returned) :
        k # l => /\ returned[k] # returned[l]
                 /\ ConfigOf(apps[returned[k]]) = ConfigOf(apps[returned[l]])

C4_Step ==
    \A x \in resp' : \A j \in 1..Len(apps) : j # x.app => apps'[j] = apps[j]

\* C4: the returned instances are distinct and equally configured in every
\* state, and every request step leaves the other instances unchanged.
C4_Factory == [](C4_Returned) /\ [][C4_Step]_vars

C4_Witness ==
    /\ Len(returned) = 2
    /\ \E x \in resp : x.app = returned[1] /\ x.status = 200
    /\ apps[returned[1]].template_cache # {}
    /\ apps[returned[2]].template_cache = {}

\* C5 (as stated): the route table of every instance holds exactly one entry,
\* "/" -> index, and no other.
C5_OnlyIndexRoute ==
    \A i \in 1..Len(apps) :
        {<<r.rule, r.endpoint>> : r \in apps[i].url_map} = {<<RootPath, "index">>}

\* C5 (amended): the route table of every instance holds exactly two entries
\* in every reachable state: "/" -> index, the only one the factory registers
\* itself, and /static/<path:filename> -> static, which the framework adds
\* for the static folder.
C5_RouteTable ==
    \A i \in 1..Len(apps) :
        /\ Cardinality(apps[i].url_map) = 2
        /\ {<<r.rule, r.endpoint>> : r \in apps[i].url_map}
            = {<<RootPath, "index">>, <<<<"static", "<path:filename>">>, "static">>}

C5_Witness ==
    \E i \in 1..Len(apps) :
        /\ apps[i].got_first_request
        /\ Cardinality(apps[i].url_map) = 2

\* C6 (as stated): the index view runs on every request to "/", whatever the
\* method; stated here for the methods the claim names (GET, HEAD, POST, PUT,
\* DELETE).
C6_AnyMethodRunsIndex ==
    \A x \in resp :
        (x.path = RootPath /\ x.method \in {"GET", "HEAD", "POST", "PUT", "DELETE"})
        => x.view = "index"

\* C6 (amended): the index view runs on a request to "/" exactly when the
\* method is GET or HEAD, and then renders index.html (a HEAD response
\* carries no body); OPTIONS is answered 200 by the framework without running
\* the view, and POST, PUT and DELETE are answered 405 without running it.
C6_IndexMethods ==
    \A x \in resp :
        x.path = RootPath =>
            /\ (x.view = "index") = (x.method \in {"GET", "HEAD"})
            /\ (x.method = "GET" /\ x.status = 200) => x.body = <<"markup", "index.html">>
            /\ x.method = "HEAD" => (x.body = <<>> /\ x.status \in {200, 500})
            /\ x.method = "OPTIONS" => (x.status = 200 /\ x.body = <<>>)
            /\ x.method \in {"POST", "PUT", "DELETE"} => x.status = 405

C6_Witness ==
    \E x \in resp :
        /\ x.path = RootPath /\ x.method = "POST"
        /\ x.status = 405 /\ x.view # "index"

\* C7: once the server has started (and for an instance a caller drives
\* itself, once it is constructed), no step changes the configuration: static
\* root, template root, route table, debug flag, host and port stay as they
\* were, whatever the requests and their outcomes (200, 404, 405 or 500).
C7_Step ==
    (main.pc = "serving" \/ name # "__main__")
    => /\ \A i \in 1..Len(apps) : ConfigOf(apps'[i]) = ConfigOf(apps[i])
       /\ server' = server
       /\ main'.pc = main.pc

\* C7: every step of a started server leaves the configuration unchanged.
C7_ConfigFrozen == [][C7_Step]_vars

C7_Witness ==
    /\ main.pc = "serving"
    /\ \E x \in resp : x.status = 500
    /\ apps[main.app].template_cache # {}

\* C8: create_app() performs no I/O: no socket is bound before app.run, a
\* file is read only in a step that handles a request, the template is looked
\* up only by a request to "/" that runs the index view, and an instance that
\* has received no request holds no loaded template.
C8_NoIoBeforeRequest ==
    /\ (io # {} /\ resp = {}) => (io = {"bind"} /\ main.pc \in {"serving", "exited"})
    /\ "bind" \in io => (resp = {} /\ server.binds = 1)
    /\ main.pc \in {"start", "created", "imported"} => server = NoServer
    /\ "template" \in io => \E x \in resp : x.path = RootPath /\ x.view = "index"
    /\ "static" \in io => \E x \in resp : x.view = "static"
    /\ \A i \in 1..Len(apps) :
        ~apps[i].got_first_request => apps[i].template_cache = {}

C8_Witness ==
    /\ Len(apps) = 1
    /\ ~apps[1].got_first_request
    /\ io = {} /\ resp = {}
    /\ server = NoServer
    /\ TemplateFile \notin fs

\* C9: the entry point calls the factory, then binds 0.0.0.0:5000 once with
\* debug enabled; after a failed bind the process has exited, holds no socket,
\* never retries or takes another port, and serves no request.
C9_BindOnce ==
    /\ server.binds <= 1
    /\ main.pc \in {"serving", "exited"}
        => /\ server.binds = 1
           /\ server.host = "0.0.0.0" /\ server.port = 5000
           /\ apps[main.app].debug
           /\ returned = <<main.app>>
    /\ server.bind_failed
        => /\ main.pc = "exited"
           /\ ~server.listening
           /\ pending = {} /\ resp = {}
    /\ main.pc = "serving" <=> server.listening

C9_Witness ==
    /\ server.bind_failed
    /\ main.pc = "exited"
    /\ ~portInUse

\* The instance as it is before it has handled any request.
Fresh(app) == [app EXCEPT !.template_cache = {}, !.got_first_request = FALSE]

Alone(x) ==
    Exchange(x.app, x.method, x.path,
             wsgi_app(Fresh(apps[x.app]), x.method, x.path, fs).response)

\* C10 (as stated): each response is the one the same instance would give to
\* that request handled alone, whatever was handled before or in between.
C10_SameAsAlone ==
    \A x \in resp : x = Alone(x)

\* C10 (amended): each response depends only on the request's method and
\* path and on the presence, when it is handled, of the template and of the
\* requested static file, and is the one the instance would give to the
\* request handled alone, provided the instance is in debug mode (as the
\* server of the entry point is) or has not rendered the template before; an
\* instance not in debug mode that has rendered it keeps answering from its
\* template cache.
C10_Step ==
    \A x \in resp' :
        (apps[x.app].debug \/ "index.html" \notin apps[x.app].template_cache)
        => x = Exchange(x.app, x.method, x.path,
                        wsgi_app(Fresh(apps[x.app]), x.method, x.path, fs).response)

\* C10 (amended): every request step answers as if the request were alone,
\* under the proviso above.
C10_Deterministic == [][C10_Step]_vars

C10_Witness ==
    /\ name = "__main__"
    /\ pending # {}
    /\ TemplateFile \notin fs
    /\ "index.html" \in apps[main.app].template_cache
    /\ \E x \in resp : x.method = "GET" /\ x.path = RootPath /\ x.status = 500

====
